---- MODULE Spec2Model ----
(***************************************************************************)
(* otelgrpc/grpcmetric.go: NewMetricsReporter registers five instruments   *)
(* on a meter and MetricsReporter.UnaryServerInterceptor records, for each *)
(* unary call, the received/sent counts, the received/sent sizes and the   *)
(* latency around the wrapped handler.                                     *)
(***************************************************************************)
EXTENDS Integers, Sequences, FiniteSets, TLC

(***************************************************************************)
(* Bounds of the model.                                                    *)
(***************************************************************************)
\* number of concurrent invocations in the concurrent workload
MaxCalls == 2
\* proto.Size of the sized payloads the environment supplies
PayloadSize == 3
\* the clock stops advancing at MaxNow nanoseconds
MaxNow == 2000000
\* nanoseconds per clock step, sequential and concurrent workload
SeqTick == 600000
ConcTick == 1500000

\* time.Millisecond, in nanoseconds
Millisecond == 1000000

(***************************************************************************)
(* Metric names (grpcmetric.go:16-22) and the instrument kinds of the      *)
(* metric API.                                                             *)
(***************************************************************************)
ServerMsgReceivedCounter == "grpc.server.msg.received.total"
ServerMsgReceivedBytes == "grpc.server.msg.received.bytes"
ServerMsgSentCounter == "grpc.server.msg.sent.total"
ServerMsgSentBytes == "grpc.server.msg.sent.bytes"
ServerLatencyMilliseconds == "grpc.server.latency.milliseconds"

Int64UpDownCounter == "Int64UpDownCounter"
Int64ValueRecorder == "Int64ValueRecorder"

\* the creations with sent-count moved before received-bytes
RegistrationsSwapped ==
    << [field |-> "serverMsgReceivedCounter", name |-> ServerMsgReceivedCounter, kind |-> Int64UpDownCounter],
       [field |-> "serverMsgSentCounter", name |-> ServerMsgSentCounter, kind |-> Int64UpDownCounter],
       [field |-> "serverMsgReceivedBytes", name |-> ServerMsgReceivedBytes, kind |-> Int64ValueRecorder],
       [field |-> "serverMsgSentBytes", name |-> ServerMsgSentBytes, kind |-> Int64ValueRecorder],
       [field |-> "serverLatencyMilliseconds", name |-> ServerLatencyMilliseconds, kind |-> Int64ValueRecorder] >>

\* The five creations of NewMetricsReporter in program order: the local
\* variable (and reporter field) assigned, the name passed to the meter and
\* the constructor called.
Registrations ==
    << [field |-> "serverMsgReceivedCounter", name |-> ServerMsgReceivedCounter, kind |-> Int64UpDownCounter],
       [field |-> "serverMsgReceivedBytes", name |-> ServerMsgReceivedBytes, kind |-> Int64ValueRecorder],
       [field |-> "serverMsgSentCounter", name |-> ServerMsgSentCounter, kind |-> Int64UpDownCounter],
       [field |-> "serverMsgSentBytes", name |-> ServerMsgSentBytes, kind |-> Int64ValueRecorder],
       [field |-> "serverLatencyMilliseconds", name |-> ServerLatencyMilliseconds, kind |-> Int64ValueRecorder] >>

Fields == { Registrations[k].field : k \in 1..Len(Registrations) }

\* Errors a meter can return from a constructor.
MeterErrors == {"duplicate instrument", "invalid name"}

\* withMessage: the error names the metric and wraps the cause (%w).
withMessage(err, metric) == [metric |-> metric, wraps |-> err]

(***************************************************************************)
(* Values crossing the interceptor.  Strings that the code takes apart are *)
(* sequences of characters.                                                *)
(***************************************************************************)
\* interface{} values: the nil interface, a proto.Message of some
\* proto.Size, or a value of a type that is no proto.Message
NilValue == [type |-> "nil", size |-> 0]
ProtoMessage(n) == [type |-> "proto", size |-> n]
PlainValue == [type |-> "plain", size |-> 0]

\* the type assertion taken for a nil check
IsProtoMessageAny(v) == v.type # "nil"

\* p, ok := v.(proto.Message)
IsProtoMessage(v) == v.type = "proto"

\* int64(proto.Size(p))
ProtoSize(v) == v.size

\* grpc status codes used by the model
OK == "OK"
Canceled == "Canceled"
Unknown == "Unknown"
NotFound == "NotFound"

\* error values: nil, an error with a GRPCStatus() of some code, or an
\* error without one
NilError == [kind |-> "nil", code |-> "", msg |-> ""]
StatusError(c) == [kind |-> "status", code |-> c, msg |-> "rpc error"]
PlainError(m) == [kind |-> "plain", code |-> "", msg |-> m]

\* FromError giving an error without status the zero status, whose code is OK
FromErrorZeroStatus(err) ==
    IF err.kind = "status" THEN [code |-> err.code] ELSE [code |-> OK]

\* status.FromError(err) for a non-nil err: the status of the error
FromError(err) ==
    IF err.kind = "status" THEN [code |-> err.code] ELSE [code |-> Unknown]

\* every error classified Unknown
OutcomeCodeUnknown(err) ==
    IF err = NilError THEN OK ELSE Unknown

\* code := OK; if err != nil { status, _ := status.FromError(err); code = status.Code() }
OutcomeCode(err) ==
    IF err = NilError THEN OK ELSE FromError(err).code

\* statusCodeAttr(code): the outcome label
statusCodeAttr(code) == [key |-> "status", value |-> code]

\* milliseconds rounded to the nearest
MillisecondsRounded(d) == (d + (Millisecond \div 2)) \div Millisecond

\* time.Duration.Milliseconds(): integer division truncating toward zero
Milliseconds(d) ==
    IF d >= 0 THEN d \div Millisecond ELSE -((-d) \div Millisecond)

\* strings.TrimLeft(s, "/")
RECURSIVE TrimLeftSlash(_)
TrimLeftSlash(s) ==
    IF s # <<>> /\ Head(s) = "/" THEN TrimLeftSlash(Tail(s)) ELSE s

\* index of the first "/" of s, 0 when there is none
IndexSlash(s) ==
    IF \E i \in 1..Len(s) : s[i] = "/"
    THEN CHOOSE i \in 1..Len(s) : s[i] = "/" /\ \A j \in 1..(i-1) : s[j] # "/"
    ELSE 0

\* parseFullMethod(fullMethod): the rpc.service and rpc.method labels of
\* "/<service>/<method>"; a part that is missing gives no label
parseFullMethod(fullMethod) ==
    LET name == TrimLeftSlash(fullMethod)
        i == IndexSlash(name)
        service == SubSeq(name, 1, i - 1)
        method == SubSeq(name, i + 1, Len(name))
    IN IF i = 0 THEN <<>>
       ELSE (IF service # <<>> THEN <<[key |-> "rpc.service", value |-> service]>> ELSE <<>>)
            \o (IF method # <<>> THEN <<[key |-> "rpc.method", value |-> method]>> ELSE <<>>)

(***************************************************************************)
(* The environment: who calls the interceptor, with what, and how the      *)
(* clock advances.                                                         *)
(***************************************************************************)
Ctxs == 1..MaxCalls

FullMethods ==
    { <<"/", "s", "/", "m">>, <<"/", "t", "/", "n">>, <<"s", "/", "m">>,
      <<"/", "s">>, <<"/", "s", "/">>, <<>> }

Requests == { NilValue, ProtoMessage(PayloadSize), ProtoMessage(0), PlainValue }

Errors ==
    { NilError, StatusError(NotFound), StatusError(Canceled), StatusError(OK),
      PlainError("context canceled") }

HandlerResults == { [resp |-> v, err |-> e] : v \in Requests, e \in Errors }

\* one caller, every input
Sequential ==
    [callers |-> {1}, methods |-> FullMethods, reqs |-> Requests,
     results |-> HandlerResults, tick |-> SeqTick]

\* MaxCalls callers at once, two kinds of call
Concurrent ==
    [callers |-> Ctxs,
     methods |-> { <<"/", "s", "/", "m">>, <<"/", "t", "/", "n">> },
     reqs |-> { ProtoMessage(PayloadSize) },
     results |-> { [resp |-> ProtoMessage(PayloadSize), err |-> NilError],
                   [resp |-> NilValue, err |-> StatusError(NotFound)] },
     tick |-> ConcTick]

Workloads == { Sequential, Concurrent }

NoHandle == [name |-> "", kind |-> ""]

VARIABLES
    env,        \* the workload: callers, their inputs, the clock step
    now,        \* the monotonic clock, in nanoseconds
    regPc,      \* NewMetricsReporter: index of the next creation
    returned,   \* NewMetricsReporter has returned
    meter,      \* the meter: the instruments created on it, in creation order
    locals,     \* NewMetricsReporter's local handles, by variable name
    mr,         \* the *MetricsReporter returned: <<>> is nil, <<r>> points to r
    regErr,     \* the error returned: <<>> is nil
    createErr,  \* the error the meter returned to NewMetricsReporter: <<>> is nil
    pc,         \* per invocation: the statement it is at
    fullMethod, \* per invocation: info.FullMethod
    req,        \* per invocation: req
    start,      \* per invocation: start
    attributes, \* per invocation: attributes
    resp,       \* per invocation: resp
    err,        \* per invocation: err
    latency,    \* per invocation: latency, in nanoseconds
    code,       \* per invocation: code
    ret,        \* per invocation: what the interceptor returned, <<>> before
    events,     \* per invocation: the instrument calls, the handler call and
                \* the return it has made, in order
    handlerArgs,   \* per invocation: the (ctx, req) the handler was called with
    handlerResult, \* per invocation: what the handler returned, <<>> before
    returnedAt     \* per invocation: the clock when the handler returned

regVars == <<regPc, returned, meter, locals, mr, regErr, createErr>>
callVars == <<pc, fullMethod, req, start, attributes, resp, err, latency, code, ret,
              events, handlerArgs, handlerResult, returnedAt>>
vars == <<env, now, regVars, callVars>>

Init ==
    /\ env \in Workloads
    /\ now = 0
    /\ regPc = 1
    /\ returned = FALSE
    /\ meter = <<>>
    /\ locals = [f \in Fields |-> NoHandle]
    /\ mr = <<>>
    /\ regErr = <<>>
    /\ createErr = <<>>
    /\ pc = [c \in Ctxs |-> "idle"]
    /\ fullMethod = [c \in Ctxs |-> <<>>]
    /\ req = [c \in Ctxs |-> NilValue]
    /\ start = [c \in Ctxs |-> 0]
    /\ attributes = [c \in Ctxs |-> <<>>]
    /\ resp = [c \in Ctxs |-> NilValue]
    /\ err = [c \in Ctxs |-> NilError]
    /\ latency = [c \in Ctxs |-> 0]
    /\ code = [c \in Ctxs |-> OK]
    /\ ret = [c \in Ctxs |-> <<>>]
    /\ events = [c \in Ctxs |-> <<>>]
    /\ handlerArgs = [c \in Ctxs |-> <<>>]
    /\ handlerResult = [c \in Ctxs |-> <<>>]
    /\ returnedAt = [c \in Ctxs |-> 0]

(***************************************************************************)
(* NewMetricsReporter                                                      *)
(***************************************************************************)
\* One of the five creations succeeds: the meter creates the instrument and
\* the handle is kept in the local variable.
CreateInstrument ==
    /\ ~returned
    /\ regPc \in 1..Len(Registrations)
    /\ LET r == Registrations[regPc]
           h == [name |-> r.name, kind |-> r.kind]
       IN /\ meter' = Append(meter, h)
          /\ locals' = [locals EXCEPT ![r.field] = h]
    /\ regPc' = regPc + 1
    /\ UNCHANGED <<env, now, returned, mr, regErr, createErr, callVars>>

\* One of the five creations fails: return nil, withMessage(err, name).
CreateInstrumentFails ==
    /\ ~returned
    /\ regPc \in 1..Len(Registrations)
    /\ \E cause \in MeterErrors :
          /\ createErr' = <<cause>>
          /\ regErr' = <<withMessage(cause, Registrations[regPc].name)>>
    /\ returned' = TRUE
    /\ UNCHANGED <<env, now, regPc, meter, locals, mr, callVars>>

\* ReturnReporter with the two recorders of sizes exchanged
ReturnReporterSwapped ==
    /\ ~returned
    /\ regPc = Len(Registrations) + 1
    /\ mr' = << [f \in Fields |->
                   IF f = "serverMsgSentBytes" THEN locals["serverMsgReceivedBytes"]
                   ELSE IF f = "serverMsgReceivedBytes" THEN locals["serverMsgSentBytes"]
                   ELSE locals[f]] >>
    /\ returned' = TRUE
    /\ UNCHANGED <<env, now, regPc, meter, locals, regErr, createErr, callVars>>

\* return &MetricsReporter{...}, nil
ReturnReporter ==
    /\ ~returned
    /\ regPc = Len(Registrations) + 1
    /\ mr' = << [f \in Fields |-> locals[f]] >>
    /\ returned' = TRUE
    /\ UNCHANGED <<env, now, regPc, meter, locals, regErr, createErr, callVars>>

(***************************************************************************)
(* The clock                                                               *)
(***************************************************************************)
Tick ==
    /\ now + env.tick <= MaxNow
    /\ now' = now + env.tick
    /\ UNCHANGED <<env, regVars, callVars>>

\* time.Since(t) at clock reading n
Since(t, n) == n - t

(***************************************************************************)
(* The function returned by mr.UnaryServerInterceptor(), for invocation c  *)
(***************************************************************************)
Measurement(op, handle, value, attrs) ==
    [op |-> op, instrument |-> handle, value |-> value, attrs |-> attrs]

HandlerEvent == Measurement("handler", NoHandle, 0, <<>>)
ReturnEvent == Measurement("return", NoHandle, 0, <<>>)

Emit(c, e) == events' = [events EXCEPT ![c] = Append(@, e)]

\* called by the server with (ctx, req, info, handler):
\* start := time.Now(); _, attributes := parseFullMethod(info.FullMethod)
Invoke(c) ==
    /\ mr # <<>>
    /\ c \in env.callers
    /\ pc[c] = "idle"
    /\ \E m \in env.methods, r \in env.reqs :
          /\ fullMethod' = [fullMethod EXCEPT ![c] = m]
          /\ req' = [req EXCEPT ![c] = r]
          /\ attributes' = [attributes EXCEPT ![c] = parseFullMethod(m)]
    /\ start' = [start EXCEPT ![c] = now]
    /\ pc' = [pc EXCEPT ![c] = "receivedCounter"]
    /\ UNCHANGED <<env, now, regVars, resp, err, latency, code, ret, events,
                   handlerArgs, handlerResult, returnedAt>>

\* AddReceived with the increment made only for a request that has a size
AddReceivedOnlySized(c) ==
    /\ pc[c] = "receivedCounter"
    /\ IF IsProtoMessage(req[c])
       THEN Emit(c, Measurement("Add", mr[1].serverMsgReceivedCounter, 1, attributes[c]))
       ELSE UNCHANGED events
    /\ pc' = [pc EXCEPT ![c] = "receivedBytes"]
    /\ UNCHANGED <<env, now, regVars, fullMethod, req, start, attributes, resp, err,
                   latency, code, ret, handlerArgs, handlerResult, returnedAt>>

\* mr.serverMsgReceivedCounter.Add(ctx, 1, attributes...)
AddReceived(c) ==
    /\ pc[c] = "receivedCounter"
    /\ Emit(c, Measurement("Add", mr[1].serverMsgReceivedCounter, 1, attributes[c]))
    /\ pc' = [pc EXCEPT ![c] = "receivedBytes"]
    /\ UNCHANGED <<env, now, regVars, fullMethod, req, start, attributes, resp, err,
                   latency, code, ret, handlerArgs, handlerResult, returnedAt>>

\* if p, ok := req.(proto.Message); ok {
\*     mr.serverMsgReceivedBytes.Record(ctx, int64(proto.Size(p)), attributes...) }
RecordReceivedBytes(c) ==
    /\ pc[c] = "receivedBytes"
    /\ IF IsProtoMessage(req[c])
       THEN Emit(c, Measurement("Record", mr[1].serverMsgReceivedBytes,
                                ProtoSize(req[c]), attributes[c]))
       ELSE UNCHANGED events
    /\ pc' = [pc EXCEPT ![c] = "handler"]
    /\ UNCHANGED <<env, now, regVars, fullMethod, req, start, attributes, resp, err,
                   latency, code, ret, handlerArgs, handlerResult, returnedAt>>

\* code := grpc_codes.OK; the call handler(ctx, req)
CallHandler(c) ==
    /\ pc[c] = "handler"
    /\ code' = [code EXCEPT ![c] = OK]
    /\ handlerArgs' = [handlerArgs EXCEPT ![c] = Append(@, <<c, req[c]>>)]
    /\ Emit(c, HandlerEvent)
    /\ pc' = [pc EXCEPT ![c] = "inHandler"]
    /\ UNCHANGED <<env, now, regVars, fullMethod, req, start, attributes, resp, err,
                   latency, ret, handlerResult, returnedAt>>

\* the handler returns: resp, err := handler(ctx, req); latency := time.Since(start);
\* the outcome code; attributes = append(attributes, statusCodeAttr(code))
HandlerReturn(c) ==
    /\ pc[c] = "inHandler"
    /\ \E result \in env.results :
          /\ handlerResult' = [handlerResult EXCEPT ![c] = <<result.resp, result.err>>]
          /\ resp' = [resp EXCEPT ![c] = result.resp]
          /\ err' = [err EXCEPT ![c] = result.err]
          /\ code' = [code EXCEPT ![c] = OutcomeCode(result.err)]
          /\ attributes' = [attributes EXCEPT ![c] =
                               Append(@, statusCodeAttr(OutcomeCode(result.err)))]
    /\ latency' = [latency EXCEPT ![c] = Since(start[c], now)]
    /\ returnedAt' = [returnedAt EXCEPT ![c] = now]
    /\ pc' = [pc EXCEPT ![c] = "sentCounter"]
    /\ UNCHANGED <<env, now, regVars, fullMethod, req, start, ret, events, handlerArgs>>

\* AddSent with the label set of whichever invocation appended its outcome
\* label, as if attributes were kept on the reporter
AddSentSharedAttributes(c) ==
    /\ pc[c] = "sentCounter"
    /\ \E d \in env.callers :
          /\ handlerResult[d] # <<>>
          /\ Emit(c, Measurement("Add", mr[1].serverMsgSentCounter, 1, attributes[d]))
    /\ pc' = [pc EXCEPT ![c] = "latency"]
    /\ UNCHANGED <<env, now, regVars, fullMethod, req, start, attributes, resp, err,
                   latency, code, ret, handlerArgs, handlerResult, returnedAt>>

\* AddSent with the increment left out when the handler failed
AddSentOnlyOnSuccess(c) ==
    /\ pc[c] = "sentCounter"
    /\ IF err[c] = NilError
       THEN Emit(c, Measurement("Add", mr[1].serverMsgSentCounter, 1, attributes[c]))
       ELSE UNCHANGED events
    /\ pc' = [pc EXCEPT ![c] = "latency"]
    /\ UNCHANGED <<env, now, regVars, fullMethod, req, start, attributes, resp, err,
                   latency, code, ret, handlerArgs, handlerResult, returnedAt>>

\* mr.serverMsgSentCounter.Add(ctx, 1, attributes...)
AddSent(c) ==
    /\ pc[c] = "sentCounter"
    /\ Emit(c, Measurement("Add", mr[1].serverMsgSentCounter, 1, attributes[c]))
    /\ pc' = [pc EXCEPT ![c] = "latency"]
    /\ UNCHANGED <<env, now, regVars, fullMethod, req, start, attributes, resp, err,
                   latency, code, ret, handlerArgs, handlerResult, returnedAt>>

\* mr.serverLatencyMilliseconds.Record(ctx, latency.Milliseconds(), attributes...)
RecordLatency(c) ==
    /\ pc[c] = "latency"
    /\ Emit(c, Measurement("Record", mr[1].serverLatencyMilliseconds,
                           Milliseconds(latency[c]), attributes[c]))
    /\ pc' = [pc EXCEPT ![c] = "sentBytes"]
    /\ UNCHANGED <<env, now, regVars, fullMethod, req, start, attributes, resp, err,
                   latency, code, ret, handlerArgs, handlerResult, returnedAt>>

\* RecordSentBytes with the labels parsed from the method name only
RecordSentBytesMethodLabels(c) ==
    /\ pc[c] = "sentBytes"
    /\ IF IsProtoMessage(resp[c])
       THEN Emit(c, Measurement("Record", mr[1].serverMsgSentBytes,
                                ProtoSize(resp[c]), parseFullMethod(fullMethod[c])))
       ELSE UNCHANGED events
    /\ pc' = [pc EXCEPT ![c] = "return"]
    /\ UNCHANGED <<env, now, regVars, fullMethod, req, start, attributes, resp, err,
                   latency, code, ret, handlerArgs, handlerResult, returnedAt>>

\* if p, ok := resp.(proto.Message); ok {
\*     mr.serverMsgSentBytes.Record(ctx, int64(proto.Size(p)), attributes...) }
RecordSentBytes(c) ==
    /\ pc[c] = "sentBytes"
    /\ IF IsProtoMessage(resp[c])
       THEN Emit(c, Measurement("Record", mr[1].serverMsgSentBytes,
                                ProtoSize(resp[c]), attributes[c]))
       ELSE UNCHANGED events
    /\ pc' = [pc EXCEPT ![c] = "return"]
    /\ UNCHANGED <<env, now, regVars, fullMethod, req, start, attributes, resp, err,
                   latency, code, ret, handlerArgs, handlerResult, returnedAt>>

\* Return that also leaves early, before the post-call records, when the
\* handler was cancelled
ReturnEarlyWhenCanceled(c) ==
    /\ \/ pc[c] = "return"
       \/ pc[c] = "sentCounter" /\ err[c] \in {StatusError(Canceled), PlainError("context canceled")}
    /\ ret' = [ret EXCEPT ![c] = <<resp[c], err[c]>>]
    /\ Emit(c, ReturnEvent)
    /\ pc' = [pc EXCEPT ![c] = "done"]
    /\ UNCHANGED <<env, now, regVars, fullMethod, req, start, attributes, resp, err,
                   latency, code, handlerArgs, handlerResult, returnedAt>>

\* Return with a handler error without status replaced by a status error
ReturnStatusError(c) ==
    /\ pc[c] = "return"
    /\ ret' = [ret EXCEPT ![c] =
                  <<resp[c], IF err[c].kind = "plain" THEN StatusError(Unknown) ELSE err[c]>>]
    /\ Emit(c, ReturnEvent)
    /\ pc' = [pc EXCEPT ![c] = "done"]
    /\ UNCHANGED <<env, now, regVars, fullMethod, req, start, attributes, resp, err,
                   latency, code, handlerArgs, handlerResult, returnedAt>>

\* return resp, err
Return(c) ==
    /\ pc[c] = "return"
    /\ ret' = [ret EXCEPT ![c] = <<resp[c], err[c]>>]
    /\ Emit(c, ReturnEvent)
    /\ pc' = [pc EXCEPT ![c] = "done"]
    /\ UNCHANGED <<env, now, regVars, fullMethod, req, start, attributes, resp, err,
                   latency, code, handlerArgs, handlerResult, returnedAt>>

Next ==
    \/ CreateInstrument
    \/ CreateInstrumentFails
    \/ ReturnReporter
    \/ Tick
    \/ \E c \in Ctxs : Invoke(c)
    \/ \E c \in Ctxs : AddReceived(c)
    \/ \E c \in Ctxs : RecordReceivedBytes(c)
    \/ \E c \in Ctxs : CallHandler(c)
    \/ \E c \in Ctxs : HandlerReturn(c)
    \/ \E c \in Ctxs : AddSent(c)
    \/ \E c \in Ctxs : RecordLatency(c)
    \/ \E c \in Ctxs : RecordSentBytes(c)
    \/ \E c \in Ctxs : Return(c)

Spec == Init /\ [][Next]_vars
(***************************************************************************)
(* What an invocation has recorded on the instrument of a given name.      *)
(***************************************************************************)
On(c, name) == SelectSeq(events[c], LAMBDA e : e.instrument.name = name)

Done(c) == pc[c] = "done"

\* the label with the given key in a label set, as a sequence (empty: none)
LabelsWithKey(attrs, key) == SelectSeq(attrs, LAMBDA a : a.key = key)

(***************************************************************************)
(* C1: every intercepted call emits exactly one received-count increment   *)
(* of 1, exactly one sent-count increment of 1 and exactly one latency     *)
(* record: never more than one while it runs, and one of each once the     *)
(* interceptor has returned.                                               *)
(***************************************************************************)
C1_ExactlyOneOfEach ==
    \A c \in Ctxs :
        /\ Len(On(c, ServerMsgReceivedCounter)) <= 1
        /\ Len(On(c, ServerMsgSentCounter)) <= 1
        /\ Len(On(c, ServerLatencyMilliseconds)) <= 1
        /\ \A i \in 1..Len(events[c]) :
              events[c][i].instrument.name \in {ServerMsgReceivedCounter, ServerMsgSentCounter}
                  => events[c][i].op = "Add" /\ events[c][i].value = 1
        /\ Done(c) =>
              /\ Len(On(c, ServerMsgReceivedCounter)) = 1
              /\ Len(On(c, ServerMsgSentCounter)) = 1
              /\ Len(On(c, ServerLatencyMilliseconds)) = 1
              /\ On(c, ServerLatencyMilliseconds)[1].op = "Record"

\* a call whose handler failed has returned
C1_Witness ==
    \E c \in Ctxs : Done(c) /\ handlerResult[c][2] # NilError
                    /\ Len(On(c, ServerMsgSentCounter)) = 1

(***************************************************************************)
(* C2: the interceptor returns exactly the (resp, err) pair the handler    *)
(* returned, for every pair including (nil, err).                          *)
(***************************************************************************)
C2_ReturnsHandlerResult ==
    \A c \in Ctxs :
        /\ ret[c] # <<>> => ret[c] = handlerResult[c]
        /\ Done(c) => ret[c] # <<>> /\ handlerResult[c] \in { <<r.resp, r.err>> : r \in env.results }

\* (nil, err) with an error that carries no status was returned
C2_Witness ==
    \E c \in Ctxs : Done(c) /\ ret[c] = <<NilValue, PlainError("context canceled")>>

(***************************************************************************)
(* C3: the outcome code is OK when the handler returned no error, C when   *)
(* it returned an error with status code C, Unknown when it returned an    *)
(* error without a status; the sent-count and latency measurements carry   *)
(* exactly this code as their one outcome label.                           *)
(***************************************************************************)
C3_Outcome(e) ==
    IF e = NilError THEN OK
    ELSE IF e.kind = "status" THEN e.code
    ELSE Unknown

C3_OutcomeLabel ==
    \A c \in Ctxs :
        \A i \in 1..Len(events[c]) :
            events[c][i].instrument.name \in {ServerMsgSentCounter, ServerLatencyMilliseconds}
                => LabelsWithKey(events[c][i].attrs, "status")
                       = << [key |-> "status", value |-> C3_Outcome(handlerResult[c][2])] >>

\* a call failed with NotFound and its sent-count and latency are recorded
C3_Witness ==
    \E c \in Ctxs :
        /\ handlerResult[c] # <<>>
        /\ handlerResult[c][2] = StatusError(NotFound)
        /\ Len(On(c, ServerMsgSentCounter)) = 1
        /\ Len(On(c, ServerLatencyMilliseconds)) = 1
        /\ code[c] = NotFound

(***************************************************************************)
(* C4: NewMetricsReporter creates received-count, received-bytes,          *)
(* sent-count, sent-bytes, latency in this order; when the k-th creation   *)
(* fails it returns nil and an error that names the k-th instrument and    *)
(* wraps the meter's error, the meter holds exactly the k-1 instruments    *)
(* created before and no later one.                                        *)
(***************************************************************************)
C4_Order ==
    << [name |-> "grpc.server.msg.received.total", kind |-> Int64UpDownCounter],
       [name |-> "grpc.server.msg.received.bytes", kind |-> Int64ValueRecorder],
       [name |-> "grpc.server.msg.sent.total", kind |-> Int64UpDownCounter],
       [name |-> "grpc.server.msg.sent.bytes", kind |-> Int64ValueRecorder],
       [name |-> "grpc.server.latency.milliseconds", kind |-> Int64ValueRecorder] >>

C4_FailFast ==
    /\ Len(meter) <= Len(C4_Order)
    /\ meter = SubSeq(C4_Order, 1, Len(meter))
    /\ createErr # <<>> =>
          /\ returned
          /\ mr = <<>>
          /\ regErr # <<>>
          /\ Len(meter) < Len(C4_Order)
          /\ regErr[1].metric = C4_Order[Len(meter) + 1].name
          /\ regErr[1].wraps = createErr[1]
    /\ regErr # <<>> => createErr # <<>>

\* the third creation failed
C4_Witness ==
    /\ returned
    /\ createErr = <<"invalid name">>
    /\ regErr = << [metric |-> "grpc.server.msg.sent.total", wraps |-> "invalid name"] >>
    /\ Len(meter) = 2

(***************************************************************************)
(* C5: when the five creations succeed NewMetricsReporter returns a        *)
(* reporter and no error, each of the five instruments was created exactly *)
(* once, each field of the reporter holds the handle created under its     *)
(* name and kind, and no step of an interceptor changes the reporter.      *)
(***************************************************************************)
C5_Reporter ==
    [ serverMsgReceivedCounter |-> [name |-> "grpc.server.msg.received.total", kind |-> Int64UpDownCounter],
      serverMsgReceivedBytes |-> [name |-> "grpc.server.msg.received.bytes", kind |-> Int64ValueRecorder],
      serverMsgSentCounter |-> [name |-> "grpc.server.msg.sent.total", kind |-> Int64UpDownCounter],
      serverMsgSentBytes |-> [name |-> "grpc.server.msg.sent.bytes", kind |-> Int64ValueRecorder],
      serverLatencyMilliseconds |-> [name |-> "grpc.server.latency.milliseconds", kind |-> Int64ValueRecorder] ]

C5_State ==
    /\ (returned /\ createErr = <<>>) => (mr # <<>> /\ regErr = <<>>)
    /\ mr # <<>> =>
          /\ returned /\ regErr = <<>>
          /\ mr[1] = C5_Reporter
          /\ \A f \in DOMAIN C5_Reporter :
                Cardinality({ i \in 1..Len(meter) : meter[i] = C5_Reporter[f] }) = 1
          /\ Len(meter) = Cardinality(DOMAIN C5_Reporter)

C5_ReporterImmutable ==
    [](C5_State) /\ [][mr # <<>> => (mr' = mr /\ meter' = meter)]_vars

\* a reporter was returned and an interceptor invocation has run to its end
C5_Witness ==
    /\ mr # <<>>
    /\ \E c \in Ctxs : Done(c) /\ Len(On(c, ServerMsgSentBytes)) = 1

(***************************************************************************)
(* C6: within one call the received-count and received-bytes measurements  *)
(* carry only the service/method labels of the call's full method name,    *)
(* never an outcome label; the sent-count, latency and sent-bytes          *)
(* measurements carry these labels followed by one outcome label, the same *)
(* on all of them.                                                         *)
(***************************************************************************)
C6_Received == {ServerMsgReceivedCounter, ServerMsgReceivedBytes}
C6_Sent == {ServerMsgSentCounter, ServerLatencyMilliseconds, ServerMsgSentBytes}

C6_Labels ==
    \A c \in Ctxs :
        \A i \in 1..Len(events[c]) :
            LET e == events[c][i] IN
            /\ e.instrument.name \in C6_Received =>
                  /\ e.attrs = parseFullMethod(fullMethod[c])
                  /\ \A k \in 1..Len(e.attrs) : e.attrs[k].key \in {"rpc.service", "rpc.method"}
            /\ e.instrument.name \in C6_Sent =>
                  /\ Len(e.attrs) = Len(parseFullMethod(fullMethod[c])) + 1
                  /\ SubSeq(e.attrs, 1, Len(e.attrs) - 1) = parseFullMethod(fullMethod[c])
                  /\ Len(LabelsWithKey(e.attrs, "status")) = 1
                  /\ SubSeq(e.attrs, Len(e.attrs), Len(e.attrs)) = LabelsWithKey(e.attrs, "status")
                  /\ \A j \in 1..Len(events[c]) :
                        events[c][j].instrument.name \in C6_Sent
                            => LabelsWithKey(events[c][j].attrs, "status")
                                   = LabelsWithKey(e.attrs, "status")

\* a call of /s/m with sized request and response has made its five records
C6_Witness ==
    \E c \in Ctxs :
        /\ Done(c)
        /\ fullMethod[c] = <<"/", "s", "/", "m">>
        /\ Len(On(c, ServerMsgReceivedBytes)) = 1
        /\ Len(On(c, ServerMsgSentBytes)) = 1
        /\ On(c, ServerMsgReceivedCounter)[1].attrs =
              << [key |-> "rpc.service", value |-> <<"s">>],
                 [key |-> "rpc.method", value |-> <<"m">>] >>
        /\ On(c, ServerMsgSentBytes)[1].attrs =
              << [key |-> "rpc.service", value |-> <<"s">>],
                 [key |-> "rpc.method", value |-> <<"m">>],
                 [key |-> "status", value |-> OK] >>

(***************************************************************************)
(* C7: a call records received-bytes once when its request has a           *)
(* computable size and never otherwise, and sent-bytes once when the       *)
(* handler's response has one and never otherwise, each with that size;    *)
(* the two are decided separately, and a skipped record leaves the         *)
(* returned result and the three other measurements as they are.           *)
(***************************************************************************)
C7_Sized(v) == v.type = "proto"

C7_Expected(v) == IF C7_Sized(v) THEN <<v.size>> ELSE <<>>

C7_Values(c, name) == [i \in 1..Len(On(c, name)) |-> On(c, name)[i].value]

C7_SizeRecords ==
    \A c \in Ctxs :
        /\ Len(On(c, ServerMsgReceivedBytes)) <= 1
        /\ Len(On(c, ServerMsgSentBytes)) <= 1
        /\ pc[c] \notin {"idle", "receivedCounter", "receivedBytes"} =>
              C7_Values(c, ServerMsgReceivedBytes) = C7_Expected(req[c])
        /\ Done(c) =>
              /\ C7_Values(c, ServerMsgSentBytes) = C7_Expected(handlerResult[c][1])
              /\ ret[c] = handlerResult[c]
              /\ Len(On(c, ServerMsgReceivedCounter)) = 1
              /\ Len(On(c, ServerMsgSentCounter)) = 1
              /\ Len(On(c, ServerLatencyMilliseconds)) = 1

\* a request without a size answered by a response with one
C7_Witness ==
    \E c \in Ctxs :
        /\ Done(c)
        /\ req[c] = PlainValue
        /\ handlerResult[c][1] = ProtoMessage(PayloadSize)
        /\ On(c, ServerMsgReceivedBytes) = <<>>
        /\ Len(On(c, ServerMsgSentBytes)) = 1

(***************************************************************************)
(* C8: the start timestamp is read when the invocation begins, before any  *)
(* of its measurements; the elapsed time is read when the handler returns; *)
(* the latency recorded is >= 0 and is that elapsed time in whole          *)
(* milliseconds, truncated, so less than a millisecond is recorded as 0.   *)
(***************************************************************************)
C8_Truncated ==
    \A c \in Ctxs :
        \A i \in 1..Len(On(c, ServerLatencyMilliseconds)) :
            LET v == On(c, ServerLatencyMilliseconds)[i].value
                elapsed == returnedAt[c] - start[c]
            IN /\ v >= 0
               /\ v * Millisecond <= elapsed
               /\ elapsed < (v + 1) * Millisecond

C8_Points ==
    \A c \in Ctxs :
        /\ (pc[c] = "idle" /\ pc'[c] # "idle") =>
              (start'[c] = now /\ events[c] = <<>> /\ events'[c] = <<>>)
        /\ (handlerResult[c] = <<>> /\ handlerResult'[c] # <<>>) =>
              (returnedAt'[c] = now /\ latency'[c] = now - start[c] /\ start'[c] = start[c])
        /\ pc[c] # "idle" => start'[c] = start[c]
        /\ handlerResult[c] # <<>> => (returnedAt'[c] = returnedAt[c] /\ latency'[c] = latency[c])

C8_Latency == [](C8_Truncated) /\ [][C8_Points]_vars

\* a call that took some time, less than a millisecond, has recorded 0
C8_Witness ==
    \E c \in Ctxs :
        /\ returnedAt[c] - start[c] > 0
        /\ Len(On(c, ServerLatencyMilliseconds)) = 1
        /\ On(c, ServerLatencyMilliseconds)[1].value = 0

(***************************************************************************)
(* C9: an invocation's events come in the order received-count,            *)
(* received-bytes (if any), one call of the handler with the context and   *)
(* request it was given, sent-count, latency, sent-bytes (if any), return; *)
(* whatever the handler returned, a cancellation included, the interceptor *)
(* has made the post-call records when it returns.                         *)
(***************************************************************************)
C9_Name(e) == IF e.op \in {"handler", "return"} THEN e.op ELSE e.instrument.name

C9_Order(c) ==
    <<ServerMsgReceivedCounter>>
    \o (IF C7_Sized(req[c]) THEN <<ServerMsgReceivedBytes>> ELSE <<>>)
    \o <<"handler">>
    \o (IF handlerResult[c] = <<>> THEN <<>>
        ELSE <<ServerMsgSentCounter, ServerLatencyMilliseconds>>
             \o (IF C7_Sized(handlerResult[c][1]) THEN <<ServerMsgSentBytes>> ELSE <<>>)
             \o <<"return">>)

C9_EventOrder ==
    \A c \in Ctxs :
        LET names == [i \in 1..Len(events[c]) |-> C9_Name(events[c][i])] IN
        /\ Len(names) <= Len(C9_Order(c))
        /\ names = SubSeq(C9_Order(c), 1, Len(names))
        /\ Done(c) <=> (names # <<>> /\ names[Len(names)] = "return")
        /\ Done(c) => names = C9_Order(c)
        /\ handlerArgs[c] = IF \E i \in 1..Len(names) : names[i] = "handler"
                            THEN << <<c, req[c]>> >> ELSE <<>>
        /\ handlerResult[c] # <<>> => handlerArgs[c] # <<>>

\* the handler was cancelled and the interceptor has returned
C9_Witness ==
    \E c \in Ctxs :
        /\ Done(c)
        /\ handlerResult[c][2] = StatusError(Canceled)
        /\ Len(On(c, ServerMsgSentCounter)) = 1
        /\ Len(On(c, ServerLatencyMilliseconds)) = 1

(***************************************************************************)
(* C10: an invocation's measurements are those of its own method name,     *)
(* request, handler result and elapsed time, whatever other invocations do *)
(* at the same time; no step of one invocation changes a local of another; *)
(* two invocations with the same inputs make the same measurements.        *)
(***************************************************************************)
C10_Alone(m, r, result, elapsed) ==
    LET P == parseFullMethod(m)
        Q == P \o << [key |-> "status", value |-> C3_Outcome(result[2])] >>
    IN <<Measurement("Add", C5_Reporter.serverMsgReceivedCounter, 1, P)>>
       \o (IF C7_Sized(r)
           THEN <<Measurement("Record", C5_Reporter.serverMsgReceivedBytes, r.size, P)>>
           ELSE <<>>)
       \o <<HandlerEvent>>
       \o <<Measurement("Add", C5_Reporter.serverMsgSentCounter, 1, Q),
            Measurement("Record", C5_Reporter.serverLatencyMilliseconds,
                        elapsed \div Millisecond, Q)>>
       \o (IF C7_Sized(result[1])
           THEN <<Measurement("Record", C5_Reporter.serverMsgSentBytes, result[1].size, Q)>>
           ELSE <<>>)
       \o <<ReturnEvent>>

C10_Own ==
    /\ \A c \in Ctxs :
          Done(c) => events[c] = C10_Alone(fullMethod[c], req[c], handlerResult[c],
                                           returnedAt[c] - start[c])
    /\ \A c, d \in Ctxs :
          (/\ Done(c) /\ Done(d)
           /\ fullMethod[c] = fullMethod[d] /\ req[c] = req[d]
           /\ handlerResult[c] = handlerResult[d]
           /\ returnedAt[c] - start[c] = returnedAt[d] - start[d])
              => events[c] = events[d]

C10_Locals(c) ==
    <<fullMethod[c], req[c], start[c], attributes[c], resp[c], err[c], latency[c],
      code[c], ret[c], events[c], handlerArgs[c], handlerResult[c], returnedAt[c]>>

C10_NoInterference ==
    \A c \in Ctxs : pc'[c] = pc[c] => C10_Locals(c)' = C10_Locals(c)

C10_Independent == [](C10_Own) /\ [][C10_NoInterference]_vars

\* two invocations of different methods that ran at the same time, one
\* failed and one not, have both returned
C10_Witness ==
    \E c, d \in Ctxs :
        /\ c # d /\ Done(c) /\ Done(d)
        /\ fullMethod[c] # fullMethod[d]
        /\ code[c] = OK /\ code[d] = NotFound
        /\ start[c] < returnedAt[d] /\ start[d] < returnedAt[c]

(***************************************************************************)
(* C11: over all invocations on one reporter, at every moment, the total   *)
(* of the sent-count increments is at most the total of the received-count *)
(* increments, the difference is at most the number of invocations that    *)
(* have started and not yet returned, and there are as many latency        *)
(* records as sent-count increments whenever no invocation is between its  *)
(* sent-count increment and its latency record.                            *)
(***************************************************************************)
RECURSIVE C11_SumValues(_)
C11_SumValues(s) == IF s = <<>> THEN 0 ELSE Head(s).value + C11_SumValues(Tail(s))

RECURSIVE C11_Over(_, _)
C11_Over(S, name) ==
    IF S = {} THEN 0
    ELSE LET c == CHOOSE x \in S : TRUE
         IN C11_SumValues(On(c, name)) + C11_Over(S \ {c}, name)

RECURSIVE C11_Records(_, _)
C11_Records(S, name) ==
    IF S = {} THEN 0
    ELSE LET c == CHOOSE x \in S : TRUE
         IN Len(On(c, name)) + C11_Records(S \ {c}, name)

C11_Received == C11_Over(Ctxs, ServerMsgReceivedCounter)
C11_SentTotal == C11_Over(Ctxs, ServerMsgSentCounter)
C11_InFlight == Cardinality({ c \in Ctxs : pc[c] \notin {"idle", "done"} })

C11_Totals ==
    /\ C11_SentTotal <= C11_Received
    /\ C11_Received - C11_SentTotal <= C11_InFlight
    /\ (\A c \in Ctxs : pc[c] # "latency") =>
          C11_Records(Ctxs, ServerLatencyMilliseconds) = C11_SentTotal

\* one invocation has returned while another is in its handler
C11_Witness ==
    /\ C11_Received = 2
    /\ C11_SentTotal = 1
    /\ C11_InFlight = 1
    /\ \E c, d \in Ctxs : Done(c) /\ pc[d] = "inHandler"

(***************************************************************************)
(* C12 as stated: the outcome label of the post-call measurements is OK    *)
(* exactly when the handler returned no error; a call whose handler        *)
(* returned an error is never labelled OK.                                 *)
(***************************************************************************)
C12_PostCall(c) ==
    SelectSeq(events[c], LAMBDA e : e.instrument.name \in C6_Sent)

C12_LabelledOK(e) == LabelsWithKey(e.attrs, "status") = << [key |-> "status", value |-> OK] >>

C12_OKIffNoError ==
    \A c \in Ctxs :
        \A i \in 1..Len(C12_PostCall(c)) :
            C12_LabelledOK(C12_PostCall(c)[i]) <=> handlerResult[c][2] = NilError

(***************************************************************************)
(* C12 as amended: the outcome label of the post-call measurements is OK   *)
(* exactly when the handler returned no error or an error whose status     *)
(* code is OK; an error without a status, or with a status code other than *)
(* OK, is never labelled OK.                                               *)
(***************************************************************************)
C12_OKIffNoErrorOrStatusOK ==
    \A c \in Ctxs :
        \A i \in 1..Len(C12_PostCall(c)) :
            C12_LabelledOK(C12_PostCall(c)[i])
                <=> (\/ handlerResult[c][2] = NilError
                     \/ /\ handlerResult[c][2].kind = "status"
                        /\ handlerResult[c][2].code = OK)

\* the handler returned an error without a status and the interceptor has
\* returned, its post-call measurements labelled Unknown
C12_Witness ==
    \E c \in Ctxs :
        /\ Done(c)
        /\ handlerResult[c][2] = PlainError("context canceled")
        /\ Len(C12_PostCall(c)) >= 2
        /\ \A i \in 1..Len(C12_PostCall(c)) :
              LabelsWithKey(C12_PostCall(c)[i].attrs, "status")
                  = << [key |-> "status", value |-> Unknown] >>
====
